---- MODULE Spec2Model ----
(***************************************************************************)
(* A model of the topology error analyser: the error log parser            *)
(* (extract_error_info), the section indexer (get_context_from_topology),  *)
(* the atom table builder (extract_atom_names), the context correlator     *)
(* (identify_atoms_from_context) and the dummy parameter synthesizer       *)
(* (process_errors_for_dummies).                                           *)
(*                                                                         *)
(* A Python str is a sequence of one-character strings, so that strip,     *)
(* split, lower, int and the ordering of sorted() are computed character   *)
(* by character.  A Python dict is a sequence of <<key, value>> pairs in   *)
(* insertion order.  A text file is the sequence of its lines.             *)
(***************************************************************************)
EXTENDS Integers, Sequences, FiniteSets, TLC

VARIABLES topology, error_content, errors, section_lines, atom_info, ret,
          dummies, stats, pc

vars == <<topology, error_content, errors, section_lines, atom_info, ret,
          dummies, stats, pc>>

----------------------------------------------------------------------------
(* Characters and strings *)

Range(s) == {s[k] : k \in 1..Len(s)}

\* The characters of the model in code-point order.
CodePoints ==
  <<"\t", "\n", " ", "+", ",", "-", ".", "0", "1", "2", "3", "4", "5", "6", "7", "8",
    "9", ":", ";", "A", "B", "C", "D", "E", "F", "G", "H", "I", "J", "K", "L",
    "M", "N", "O", "P", "Q", "R", "S", "T", "U", "V", "W", "X", "Y", "Z", "[",
    "]", "a", "b", "c", "d", "e", "f", "g", "h", "i", "j", "k", "l", "m", "n",
    "o", "p", "q", "r", "s", "t", "u", "v", "w", "x", "y", "z">>

Ord(c) == CHOOSE k \in 1..Len(CodePoints) : CodePoints[k] = c

UpperCase == <<"A", "B", "C", "D", "E", "F", "G", "H", "I", "J", "K", "L", "M",
               "N", "O", "P", "Q", "R", "S", "T", "U", "V", "W", "X", "Y", "Z">>
LowerCase == <<"a", "b", "c", "d", "e", "f", "g", "h", "i", "j", "k", "l", "m",
               "n", "o", "p", "q", "r", "s", "t", "u", "v", "w", "x", "y", "z">>

LowerChar(c) ==
  IF \E k \in 1..Len(UpperCase) : UpperCase[k] = c
  THEN LowerCase[CHOOSE k \in 1..Len(UpperCase) : UpperCase[k] = c]
  ELSE c

\* str.lower()
Lower(s) == [k \in 1..Len(s) |-> LowerChar(s[k])]

IsSpace(c) == c \in {" ", "\t", "\n"}

IsDigit(c) == c \in {"0", "1", "2", "3", "4", "5", "6", "7", "8", "9"}

RECURSIVE LStrip(_)
LStrip(s) == IF s # <<>> /\ IsSpace(Head(s)) THEN LStrip(Tail(s)) ELSE s

RECURSIVE RStrip(_)
RStrip(s) ==
  IF s # <<>> /\ IsSpace(s[Len(s)]) THEN RStrip(SubSeq(s, 1, Len(s) - 1)) ELSE s

\* str.strip()
Strip(s) == RStrip(LStrip(s))

\* str.split(): the maximal runs of non-whitespace characters, in order.
RECURSIVE SplitFrom(_, _, _, _)
SplitFrom(s, k, cur, acc) ==
  IF k > Len(s) THEN (IF cur = <<>> THEN acc ELSE Append(acc, cur))
  ELSE IF IsSpace(s[k])
       THEN SplitFrom(s, k + 1, <<>>, IF cur = <<>> THEN acc ELSE Append(acc, cur))
       ELSE SplitFrom(s, k + 1, Append(cur, s[k]), acc)

Split(s) == SplitFrom(s, 1, <<>>, <<>>)

\* str.startswith(p)
StartsWith(s, p) == Len(s) >= Len(p) /\ SubSeq(s, 1, Len(p)) = p

\* p in s
Contains(s, p) ==
  \E k \in 0..(Len(s) - Len(p)) : SubSeq(s, k + 1, k + Len(p)) = p

DigitValue(c) == Ord(c) - Ord("0")

RECURSIVE DigitsValue(_, _)
DigitsValue(s, acc) ==
  IF s = <<>> THEN acc ELSE DigitsValue(Tail(s), 10 * acc + DigitValue(Head(s)))

\* int(tok) succeeds: an optional sign and one or more digits (tok is a
\* token of split(), so it holds no whitespace).
IsInt(tok) ==
  LET body == IF tok # <<>> /\ Head(tok) \in {"+", "-"} THEN Tail(tok) ELSE tok
  IN  body # <<>> /\ \A k \in 1..Len(body) : IsDigit(body[k])

\* int(tok), for a tok with IsInt(tok)
ToInt(tok) ==
  IF Head(tok) = "-" THEN 0 - DigitsValue(Tail(tok), 0)
  ELSE IF Head(tok) = "+" THEN DigitsValue(Tail(tok), 0)
  ELSE DigitsValue(tok, 0)

----------------------------------------------------------------------------
(* dict: a sequence of <<key, value>> pairs, keys distinct, in insertion order *)

Has(d, k) == \E j \in 1..Len(d) : d[j][1] = k

Get(d, k) == d[CHOOSE j \in 1..Len(d) : d[j][1] = k][2]

\* d[k] = v
Put(d, k, v) ==
  IF Has(d, k)
  THEN [j \in 1..Len(d) |-> IF d[j][1] = k THEN <<k, v>> ELSE d[j]]
  ELSE Append(d, <<k, v>>)

Keys(d) == {d[j][1] : j \in 1..Len(d)}

----------------------------------------------------------------------------
(* extract_error_info *)

\* The literal pieces of error_pattern.
LitError == <<"E", "R", "R", "O", "R", " ">>
LitFile == <<" ", "[", "f", "i", "l", "e", " ", "t", "o", "p", "o", "l", ".",
             "t", "o", "p", ",", " ", "l", "i", "n", "e", " ">>
LitClose == <<"]", ":">>

\* The literal lit stands in text at position p.
MatchLiteral(text, p, lit) ==
  p + Len(lit) - 1 <= Len(text) /\ SubSeq(text, p, p + Len(lit) - 1) = lit

\* \d+ and \s+ are greedy: the first position from p on that holds no digit
\* (no whitespace), or one past the end.
RECURSIVE DigitRunEnd(_, _)
DigitRunEnd(text, p) ==
  IF p <= Len(text) /\ IsDigit(text[p]) THEN DigitRunEnd(text, p + 1) ELSE p

RECURSIVE SpaceRunEnd(_, _)
SpaceRunEnd(text, p) ==
  IF p <= Len(text) /\ IsSpace(text[p]) THEN SpaceRunEnd(text, p + 1) ELSE p

\* (.*?)(?=\n\n|\Z) with re.DOTALL: the first position from p on that is
\* followed by two newlines or is the end of the text.
RECURSIVE LazyEnd(_, _)
LazyEnd(text, p) ==
  IF p > Len(text) \/ (p + 1 <= Len(text) /\ text[p] = "\n" /\ text[p + 1] = "\n")
  THEN p
  ELSE LazyEnd(text, p + 1)

\* ERROR (\d+) \[file topol\.top, line (\d+)\]: at position p.  The digit
\* runs cannot give a digit back (the literal after each starts with no
\* digit), so the greedy match is the only one.
MatchHeader(text, p) ==
  LET a == p + Len(LitError)
      b == DigitRunEnd(text, a)
      c == b + Len(LitFile)
      d == DigitRunEnd(text, c)
      e == d + Len(LitClose)
  IN  [ok |-> /\ MatchLiteral(text, p, LitError)
              /\ b > a
              /\ MatchLiteral(text, b, LitFile)
              /\ d > c
              /\ MatchLiteral(text, d, LitClose),
       num |-> SubSeq(text, a, b - 1),
       line |-> SubSeq(text, c, d - 1),
       end |-> e]

\* The whole pattern at position p.  After the greedy \s+ the lazy group
\* always finds its end (at the latest the end of the text), so \s+ never
\* gives a character back.
MatchAt(text, p) ==
  LET h == MatchHeader(text, p)
      f == SpaceRunEnd(text, h.end)
      g == LazyEnd(text, f)
  IN  [ok |-> h.ok /\ f > h.end,
       error |-> [error_num |-> ToInt(h.num),
                  line_number |-> ToInt(h.line),
                  error_msg |-> Strip(SubSeq(text, f, g - 1))],
       end |-> g]

\* re.finditer: the leftmost match from p on, then on from its end.
RECURSIVE FindIter(_, _, _)
FindIter(text, p, acc) ==
  IF p > Len(text) THEN acc
  ELSE IF MatchHeader(text, p).ok /\ MatchAt(text, p).ok
  THEN FindIter(text, MatchAt(text, p).end, Append(acc, MatchAt(text, p).error))
  ELSE FindIter(text, p + 1, acc)

ExtractErrorInfo(content) ==
  IF content = <<>> THEN <<>> ELSE FindIter(content, 1, <<>>)

----------------------------------------------------------------------------
(* get_context_from_topology *)

\* The section headers searched for, in the order of the list.
Sections == <<"[ atoms ]", "[ bonds ]", "[ pairs ]", "[ angles ]", "[ dihedrals ]">>

\* The characters of a section name.
Text(name) ==
  CASE name = "[ atoms ]" -> <<"[", " ", "a", "t", "o", "m", "s", " ", "]">>
    [] name = "[ bonds ]" -> <<"[", " ", "b", "o", "n", "d", "s", " ", "]">>
    [] name = "[ pairs ]" -> <<"[", " ", "p", "a", "i", "r", "s", " ", "]">>
    [] name = "[ angles ]" -> <<"[", " ", "a", "n", "g", "l", "e", "s", " ", "]">>
    [] name = "[ dihedrals ]" ->
         <<"[", " ", "d", "i", "h", "e", "d", "r", "a", "l", "s", " ", "]">>
    [] name = "[ proper dihedrals ]" ->
         <<"[", " ", "p", "r", "o", "p", "e", "r", " ",
           "d", "i", "h", "e", "d", "r", "a", "l", "s", " ", "]">>
    [] name = "[ improper dihedrals ]" ->
         <<"[", " ", "i", "m", "p", "r", "o", "p", "e", "r", " ",
           "d", "i", "h", "e", "d", "r", "a", "l", "s", " ", "]">>

\* The body of the inner loop: one header compared with the stripped line i.
\* st = [counts, lines] holds section_counts and section_lines.
VisitSectionThirdOverwrites(section, i, line, st) ==
  IF Lower(line) = Lower(Text(section))
  THEN LET c == st.counts[section] + 1
           counts == [st.counts EXCEPT ![section] = c]
       IN  IF section = "[ dihedrals ]"
           THEN IF c = 1
                THEN [counts |-> counts,
                      lines |-> Put(st.lines, "[ proper dihedrals ]", i)]
                ELSE [counts |-> counts,
                      lines |-> Put(st.lines, "[ improper dihedrals ]", i)]
           ELSE [counts |-> counts, lines |-> Put(st.lines, section, i)]
  ELSE st

VisitSection(section, i, line, st) ==
  IF Lower(line) = Lower(Text(section))
  THEN LET c == st.counts[section] + 1
           counts == [st.counts EXCEPT ![section] = c]
       IN  IF section = "[ dihedrals ]"
           THEN IF c = 1
                THEN [counts |-> counts,
                      lines |-> Put(st.lines, "[ proper dihedrals ]", i)]
                ELSE IF c = 2
                THEN [counts |-> counts,
                      lines |-> Put(st.lines, "[ improper dihedrals ]", i)]
                ELSE [counts |-> counts, lines |-> st.lines]
           ELSE [counts |-> counts, lines |-> Put(st.lines, section, i)]
  ELSE st

\* for section in sections
RECURSIVE VisitSections(_, _, _, _)
VisitSections(k, i, line, st) ==
  IF k > Len(Sections) THEN st
  ELSE VisitSections(k + 1, i, line, VisitSection(Sections[k], i, line, st))

\* for i, line in enumerate(file, 1)
RECURSIVE ScanTopology(_, _, _)
ScanTopology(text, i, st) ==
  IF i > Len(text) THEN st
  ELSE ScanTopology(text, i + 1, VisitSections(1, i, Strip(text[i]), st))

GetContextFromTopology(text) ==
  ScanTopology(text, 1,
               [counts |-> [s \in Range(Sections) |-> 0], lines |-> <<>>]).lines

----------------------------------------------------------------------------
(* extract_atom_names *)

NoEnd == [inf |-> TRUE, line |-> 0]

\* for section, line in section_lines.items(): the smallest indexed line
\* greater than atoms_start, starting from float('inf').
RECURSIVE AtomsEnd(_, _, _, _)
AtomsEnd(d, j, atoms_start, end) ==
  IF j > Len(d) THEN end
  ELSE LET line == d[j][2]
       IN  AtomsEnd(d, j + 1, atoms_start,
                    IF line > atoms_start /\ (end.inf \/ line < end.line)
                    THEN [inf |-> FALSE, line |-> line]
                    ELSE end)

AtomRecord(tokens) ==
  [name |-> tokens[5], type |-> tokens[2], resnr |-> tokens[3],
   residue |-> tokens[4]]

\* ReadAtoms accepting rows of four tokens (tokens[4] then raises IndexError).
RECURSIVE ReadAtomsFourTokens(_, _, _, _, _)
ReadAtomsFourTokens(text, k, line_num, atoms_end, info) ==
  IF k > Len(text) THEN [raised |-> FALSE, info |-> info]
  ELSE IF ~atoms_end.inf /\ line_num >= atoms_end.line
  THEN [raised |-> FALSE, info |-> info]
  ELSE LET line == Strip(text[k])
           tokens == Split(line)
       IN  IF line = <<>> \/ StartsWith(line, <<";">>)
           THEN ReadAtomsFourTokens(text, k + 1, line_num + 1, atoms_end, info)
           ELSE IF Len(tokens) >= 4
           THEN IF ~IsInt(tokens[1])
                THEN [raised |-> TRUE, info |-> info]
                ELSE IF Len(tokens) < 5
                THEN [raised |-> TRUE, info |-> info]
                ELSE ReadAtomsFourTokens(text, k + 1, line_num + 1, atoms_end,
                       Put(info, ToInt(tokens[1]), AtomRecord(tokens)))
           ELSE ReadAtomsFourTokens(text, k + 1, line_num + 1, atoms_end, info)

\* for line in file: k is the position of the file iterator, line_num the
\* counter of the code.  raised: int(tokens[0]) raised ValueError.
RECURSIVE ReadAtoms(_, _, _, _, _)
ReadAtoms(text, k, line_num, atoms_end, info) ==
  IF k > Len(text) THEN [raised |-> FALSE, info |-> info]
  ELSE IF ~atoms_end.inf /\ line_num >= atoms_end.line
  THEN [raised |-> FALSE, info |-> info]
  ELSE LET line == Strip(text[k])
           tokens == Split(line)
       IN  IF line = <<>> \/ StartsWith(line, <<";">>)
           THEN ReadAtoms(text, k + 1, line_num + 1, atoms_end, info)
           ELSE IF Len(tokens) >= 5
           THEN IF ~IsInt(tokens[1])
                THEN [raised |-> TRUE, info |-> info]
                ELSE ReadAtoms(text, k + 1, line_num + 1, atoms_end,
                               Put(info, ToInt(tokens[1]), AtomRecord(tokens)))
           ELSE ReadAtoms(text, k + 1, line_num + 1, atoms_end, info)

\* The dict returned: empty when the index has no [ atoms ], when the file
\* has fewer than atoms_start lines (next(file) raises StopIteration) and
\* when a row raised (except Exception: return {}).
ExtractAtomNames(text, sl) ==
  IF ~Has(sl, "[ atoms ]") THEN <<>>
  ELSE LET atoms_start == Get(sl, "[ atoms ]")
           atoms_end == AtomsEnd(sl, 1, atoms_start, NoEnd)
           read == ReadAtoms(text, atoms_start + 1, atoms_start + 1, atoms_end, <<>>)
       IN  IF atoms_start > Len(text) \/ read.raised THEN <<>> ELSE read.info

----------------------------------------------------------------------------
(* identify_atoms_from_context *)

\* return [], [], [], []
NoRet == [atoms |-> <<>>, names |-> <<>>, residues |-> <<>>, types |-> <<>>]

NoDummies == [angles |-> <<>>, dihedrals |-> <<>>]

\* The counters of process_errors_for_dummies before the loop.
NoStats == [processed |-> 0, no_atom_types |-> 0, unknown |-> 0, wrong_count |-> 0]

\* str(n)
RECURSIVE NatToStr(_)
NatToStr(n) ==
  IF n < 10 THEN <<CodePoints[Ord("0") + n]>>
  ELSE NatToStr(n \div 10) \o <<CodePoints[Ord("0") + (n % 10)]>>

IntToStr(n) == IF n < 0 THEN <<"-">> \o NatToStr(0 - n) ELSE NatToStr(n)

\* error[k] = v on an error dict (a record; a key not yet set is not in its
\* domain).
SetField(e, k, v) == [x \in DOMAIN e \cup {k} |-> IF x = k THEN v ELSE e[x]]

None == "None"

\* The inner loop: no entry starts after start_line and at or before the
\* error line.
IsLastSection(sl, start_line, error_line) ==
  ~ \E j \in 1..Len(sl) : sl[j][2] > start_line /\ error_line >= sl[j][2]

\* The outer loop from entry j on, in the order of the dict, with break:
\* FindSectionFirstStarted takes the first entry that starts at or before
\* the error line.
RECURSIVE FindSectionFirstStarted(_, _, _)
FindSectionFirstStarted(sl, j, error_line) ==
  IF j > Len(sl) THEN None
  ELSE IF error_line >= sl[j][2] THEN sl[j][1]
  ELSE FindSectionFirstStarted(sl, j + 1, error_line)

RECURSIVE FindSection(_, _, _)
FindSection(sl, j, error_line) ==
  IF j > Len(sl) THEN None
  ELSE IF error_line >= sl[j][2] /\ IsLastSection(sl, sl[j][2], error_line)
  THEN sl[j][1]
  ELSE FindSection(sl, j + 1, error_line)

\* The number of leading tokens read, with four read in [ angles ] as in the
\* dihedral sections.
ArityAnglesFour(section) ==
  CASE section \in {"[ bonds ]", "[ pairs ]"} -> 2
    [] section \in {"[ angles ]", "[ proper dihedrals ]", "[ improper dihedrals ]"} -> 4
    [] OTHER -> 0

\* The number of leading tokens read in a section (0: none are read).
Arity(section) ==
  CASE section \in {"[ bonds ]", "[ pairs ]"} -> 2
    [] section = "[ angles ]" -> 3
    [] section \in {"[ proper dihedrals ]", "[ improper dihedrals ]"} -> 4
    [] OTHER -> 0

\* atoms = [int(tokens[0]), ...]: raised when one of the tokens read is no
\* integer.
ExtractAtoms(section, tokens) ==
  LET n == Arity(section)
  IN  IF n = 0 \/ Len(tokens) < n THEN [raised |-> FALSE, atoms |-> <<>>]
      ELSE IF \E k \in 1..n : ~IsInt(tokens[k]) THEN [raised |-> TRUE, atoms |-> <<>>]
      ELSE [raised |-> FALSE, atoms |-> [k \in 1..n |-> ToInt(tokens[k])]]

LitUnknown == <<"U", "n", "k", "n", "o", "w", "n">>

\* The three lists built from the atom table: skipped when the table is
\* falsy (None or empty).
ResolveAtoms(atoms, ai) ==
  IF ai # <<>>
  THEN [atoms |-> atoms,
        names |-> [k \in 1..Len(atoms) |->
                     IF Has(ai, atoms[k]) THEN Get(ai, atoms[k]).name
                     ELSE LitUnknown \o <<"-">> \o IntToStr(atoms[k])],
        residues |-> [k \in 1..Len(atoms) |->
                        IF Has(ai, atoms[k])
                        THEN Get(ai, atoms[k]).residue \o Get(ai, atoms[k]).resnr
                        ELSE LitUnknown],
        types |-> [k \in 1..Len(atoms) |->
                     IF Has(ai, atoms[k]) THEN Get(ai, atoms[k]).type ELSE LitUnknown]]
  ELSE [atoms |-> atoms, names |-> <<>>, residues |-> <<>>, types |-> <<>>]

\* The call without its try/except: a token that is no integer leaves the
\* call as an exception, the section already written.
IdentifyAtomsFromContextUncaught(error, sl, text, ai) ==
  LET error_line == error.line_number
      error_section == FindSection(sl, 1, error_line)
      written == SetField(error, "section", error_section)
      tokens == Split(Strip(text[error_line]))
      extracted == ExtractAtoms(error_section, tokens)
  IN  IF error_section = None THEN [error |-> error, ret |-> NoRet, raised |-> FALSE]
      ELSE IF error_line \notin 1..Len(text)
      THEN [error |-> written, ret |-> NoRet, raised |-> FALSE]
      ELSE IF extracted.raised THEN [error |-> written, ret |-> NoRet, raised |-> TRUE]
      ELSE [error |-> written, ret |-> ResolveAtoms(extracted.atoms, ai),
            raised |-> FALSE]

\* The call: [error |-> the error dict after the call, ret |-> the four lists
\* returned, raised |-> whether an exception leaves the call].  The whole
\* body is in try/except Exception, which returns four empty lists, so none
\* does.  ai is the atom table; None and {} are both falsy in
\* `if atom_info:`, so no table passed is the empty table.
IdentifyAtomsFromContext(error, sl, text, ai) ==
  LET error_line == error.line_number
      error_section == FindSection(sl, 1, error_line)
      written == SetField(error, "section", error_section)
      tokens == Split(Strip(text[error_line]))
      extracted == ExtractAtoms(error_section, tokens)
  IN  IF error_section = None THEN [error |-> error, ret |-> NoRet, raised |-> FALSE]
      ELSE IF error_line \notin 1..Len(text)
      THEN [error |-> written, ret |-> NoRet, raised |-> FALSE]
      ELSE IF extracted.raised THEN [error |-> written, ret |-> NoRet, raised |-> FALSE]
      ELSE [error |-> written, ret |-> ResolveAtoms(extracted.atoms, ai),
            raised |-> FALSE]

\* main: the four lists are stored in the error dict.
StoreResults(error, r) ==
  SetField(SetField(SetField(SetField(error,
    "atoms", r.atoms), "atom_names", r.names), "residues", r.residues),
    "atom_types", r.types)

----------------------------------------------------------------------------
(* generate_angle_dummy, generate_dihedral_dummy *)

Spaces(n) == [k \in 1..n |-> " "]

\* {s:>w}
RJust(s, w) == IF Len(s) >= w THEN s ELSE Spaces(w - Len(s)) \o s

\* A float with one decimal digit: whole.tenth.
Float(whole, tenth) == [whole |-> whole, tenth |-> tenth]

\* {x:w.pf} for p >= 1: the digits of x to p decimals, right-justified to w.
FormatFixed(x, w, p) ==
  RJust(NatToStr(x.whole) \o <<".">> \o NatToStr(x.tenth)
          \o [k \in 1..(p - 1) |-> "0"], w)

theta0 == Float(120, 0)
ktheta == Float(200, 0)
ub0 == Float(0, 0)
kub == Float(0, 0)
phi0 == Float(0, 0)
kphi == Float(0, 0)
mult == 1

\* generate_angle_dummy with kub formatted as {kub:8.2f}.
GenerateAngleDummyNarrowKub(atom_types) ==
  IF Len(atom_types) # 3 THEN None
  ELSE RJust(atom_types[1], 8) \o <<" ">> \o RJust(atom_types[2], 8) \o <<" ">>
       \o RJust(atom_types[3], 8) \o Spaces(5) \o <<"1">> \o Spaces(3)
       \o FormatFixed(theta0, 10, 6) \o Spaces(3) \o FormatFixed(ktheta, 10, 6)
       \o Spaces(3) \o FormatFixed(ub0, 10, 8) \o Spaces(3)
       \o FormatFixed(kub, 8, 2) \o <<" ", ";">>

GenerateAngleDummy(atom_types) ==
  IF Len(atom_types) # 3 THEN None
  ELSE RJust(atom_types[1], 8) \o <<" ">> \o RJust(atom_types[2], 8) \o <<" ">>
       \o RJust(atom_types[3], 8) \o Spaces(5) \o <<"1">> \o Spaces(3)
       \o FormatFixed(theta0, 10, 6) \o Spaces(3) \o FormatFixed(ktheta, 10, 6)
       \o Spaces(3) \o FormatFixed(ub0, 10, 8) \o Spaces(3)
       \o FormatFixed(kub, 10, 2) \o <<" ", ";">>

GenerateDihedralDummy(atom_types) ==
  IF Len(atom_types) # 4 THEN None
  ELSE RJust(atom_types[1], 8) \o <<" ">> \o RJust(atom_types[2], 8) \o <<" ">>
       \o RJust(atom_types[3], 8) \o <<" ">> \o RJust(atom_types[4], 8)
       \o <<"\t", "\t", "9">> \o Spaces(5) \o FormatFixed(phi0, 10, 6)
       \o Spaces(5) \o FormatFixed(kphi, 10, 6) \o Spaces(5) \o IntToStr(mult)
       \o <<" ", ";">>

----------------------------------------------------------------------------
(* process_errors_for_dummies *)

LitNoDefaultUB ==
  <<"n", "o", " ", "d", "e", "f", "a", "u", "l", "t", " ", "u", "-", "b", " ",
    "t", "y", "p", "e", "s">>
LitAngleType == <<"a", "n", "g", "l", "e", " ", "t", "y", "p", "e">>
LitAngle == <<"a", "n", "g", "l", "e">>
LitNoDefaultDihedralType ==
  <<"n", "o", " ", "d", "e", "f", "a", "u", "l", "t", " ", "d", "i", "h", "e",
    "d", "r", "a", "l", " ", "t", "y", "p", "e">>
LitDihedralType == <<"d", "i", "h", "e", "d", "r", "a", "l", " ", "t", "y", "p", "e">>
LitDihedral == <<"d", "i", "h", "e", "d", "r", "a", "l">>

\* 'atom_types' not in error or not error['atom_types']
NoAtomTypes(error) == "atom_types" \notin DOMAIN error \/ error.atom_types = <<>>

\* section and '<word>' in section.lower()
SectionContains(error, word) ==
  "section" \in DOMAIN error /\ Contains(Lower(Text(error.section)), word)

\* The condition of the if: an angle error.
IsAngleError(error) ==
  \/ Contains(Lower(error.error_msg), LitNoDefaultUB)
  \/ Contains(Lower(error.error_msg), LitAngleType)
  \/ SectionContains(error, LitAngle)

\* The condition of the elif: a dihedral error.
IsDihedralError(error) ==
  \/ Contains(Lower(error.error_msg), LitNoDefaultDihedralType)
  \/ Contains(Lower(error.error_msg), LitDihedralType)
  \/ SectionContains(error, LitDihedral)

\* if dummy: neither None nor the empty str
Truthy(dummy) == dummy # None /\ dummy # <<>>

Count(st, counter) == [st EXCEPT !.stats[counter] = @ + 1]

\* The body of the loop with the elif turned into a second if tried after an
\* angle error of the wrong atom count.
ProcessErrorFallThrough(error, st) ==
  IF NoAtomTypes(error) THEN Count(st, "no_atom_types")
  ELSE IF IsAngleError(error) /\ Len(error.atom_types) = 3
  THEN Count([st EXCEPT !.angles =
                @ \cup {GenerateAngleDummy(error.atom_types)}], "processed")
  ELSE IF IsDihedralError(error)
  THEN IF Len(error.atom_types) = 4
       THEN Count([st EXCEPT !.dihedrals =
                     @ \cup {GenerateDihedralDummy(error.atom_types)}], "processed")
       ELSE Count(st, "wrong_count")
  ELSE IF IsAngleError(error) THEN Count(st, "wrong_count")
  ELSE Count(st, "unknown")

\* The body of the loop on one error.  st = [angles, dihedrals, stats] holds
\* the two sets and the counters.
ProcessError(error, st) ==
  IF NoAtomTypes(error) THEN Count(st, "no_atom_types")
  ELSE IF IsAngleError(error)
  THEN IF Len(error.atom_types) = 3
       THEN IF Truthy(GenerateAngleDummy(error.atom_types))
            THEN Count([st EXCEPT !.angles =
                          @ \cup {GenerateAngleDummy(error.atom_types)}], "processed")
            ELSE Count(st, "wrong_count")
       ELSE Count(st, "wrong_count")
  ELSE IF IsDihedralError(error)
  THEN IF Len(error.atom_types) = 4
       THEN IF Truthy(GenerateDihedralDummy(error.atom_types))
            THEN Count([st EXCEPT !.dihedrals =
                          @ \cup {GenerateDihedralDummy(error.atom_types)}], "processed")
            ELSE Count(st, "wrong_count")
       ELSE Count(st, "wrong_count")
  ELSE Count(st, "unknown")

\* for error in errors
RECURSIVE ProcessErrors(_, _, _)
ProcessErrors(es, k, st) ==
  IF k > Len(es) THEN st ELSE ProcessErrors(es, k + 1, ProcessError(es[k], st))

\* a < b for two str: the order of their first differing code points, a
\* proper prefix first.
RECURSIVE StrLess(_, _)
StrLess(a, b) ==
  IF b = <<>> THEN FALSE
  ELSE IF a = <<>> THEN TRUE
  ELSE IF Head(a) = Head(b) THEN StrLess(Tail(a), Tail(b))
  ELSE Ord(Head(a)) < Ord(Head(b))

\* sorted(..., reverse=True)
RECURSIVE SortedDescending(_)
SortedDescending(S) ==
  IF S = {} THEN <<>>
  ELSE LET last == CHOOSE x \in S : \A y \in S \ {x} : StrLess(y, x)
       IN  <<last>> \o SortedDescending(S \ {last})

\* sorted(list(S))
RECURSIVE Sorted(_)
Sorted(S) ==
  IF S = {} THEN <<>>
  ELSE LET first == CHOOSE x \in S : \A y \in S \ {x} : StrLess(x, y)
       IN  <<first>> \o Sorted(S \ {first})

\* [dummies |-> the dict returned, stats |-> the counters printed]
ProcessErrorsForDummies(es) ==
  LET st == ProcessErrors(es, 1, [angles |-> {}, dihedrals |-> {}, stats |-> NoStats])
  IN  [dummies |-> [angles |-> Sorted(st.angles), dihedrals |-> Sorted(st.dihedrals)],
       stats |-> st.stats]

----------------------------------------------------------------------------
(* Bounded inputs *)

RECURSIVE SeqsUpTo(_, _)
SeqsUpTo(S, n) ==
  IF n = 0 THEN {<<>>}
  ELSE LET shorter == SeqsUpTo(S, n - 1)
       IN  shorter \cup {Append(s, x) : s \in {t \in shorter : Len(t) = n - 1}, x \in S}

MaxIndexLines == 4

\* Lines of a topology that matter to the section indexer: the five headers,
\* a header in another case with surrounding blanks, a data row, and a
\* bracketed line that is no header.
IndexLineKinds ==
  { <<"[", " ", "a", "t", "o", "m", "s", " ", "]">>,
    <<"[", " ", "b", "o", "n", "d", "s", " ", "]">>,
    <<"[", " ", "p", "a", "i", "r", "s", " ", "]">>,
    <<"[", " ", "a", "n", "g", "l", "e", "s", " ", "]">>,
    <<"[", " ", "d", "i", "h", "e", "d", "r", "a", "l", "s", " ", "]">>,
    <<" ", "[", " ", "D", "i", "h", "e", "d", "r", "a", "l", "s", " ", "]", " ">>,
    <<"1", " ", "2", " ", "1">>,
    <<"[", " ", "a", "t", "o", "m", "s", "]">> }

----------------------------------------------------------------------------
(* The section indexer run on a topology text *)

InitIndex ==
  /\ topology \in SeqsUpTo(IndexLineKinds, MaxIndexLines)
  /\ error_content = <<>>
  /\ errors = <<>>
  /\ section_lines = <<>>
  /\ atom_info = <<>>
  /\ ret = NoRet
  /\ dummies = NoDummies
  /\ stats = NoStats
  /\ pc = "index"

\* sections = get_context_from_topology(topology_file)
IndexSections ==
  /\ pc = "index"
  /\ section_lines' = GetContextFromTopology(topology)
  /\ pc' = "atoms"
  /\ UNCHANGED <<topology, error_content, errors, atom_info, ret, dummies, stats>>

NextIndex == IndexSections

SpecIndex == InitIndex /\ [][NextIndex]_vars

\* The lines of the text that hold the header, in increasing order.
Occurrences(text, header) ==
  {i \in 1..Len(text) : Lower(Strip(text[i])) = Text(header)}

Min(S) == CHOOSE x \in S : \A y \in S : x <= y
Max(S) == CHOOSE x \in S : \A y \in S : x >= y

\* The k-th smallest element of a set of integers.
RECURSIVE Nth(_, _)
Nth(S, k) == IF k = 1 THEN Min(S) ELSE Nth(S \ {Min(S)}, k - 1)

\* C1: for each of [ atoms ], [ bonds ], [ pairs ], [ angles ] that occurs in
\* the text, the index holds the line of its FIRST occurrence.
C1_FirstOccurrenceWins ==
  pc = "atoms" =>
    \A h \in {"[ atoms ]", "[ bonds ]", "[ pairs ]", "[ angles ]"} :
      Occurrences(topology, h) # {} =>
        /\ Has(section_lines, h)
        /\ Get(section_lines, h) = Min(Occurrences(topology, h))

\* C2: the 1st [ dihedrals ] header is recorded as ProperDihedrals, the 2nd as
\* ImproperDihedrals, a 3rd or later one changes nothing; so ImproperDihedrals
\* is present only with ProperDihedrals present at a strictly smaller line.
C2_DihedralsByOccurrence ==
  pc = "atoms" =>
    LET occ == Occurrences(topology, "[ dihedrals ]")
        n == Cardinality(occ)
    IN  /\ Has(section_lines, "[ proper dihedrals ]") <=> n >= 1
        /\ Has(section_lines, "[ improper dihedrals ]") <=> n >= 2
        /\ n >= 1 => Get(section_lines, "[ proper dihedrals ]") = Nth(occ, 1)
        /\ n >= 2 => Get(section_lines, "[ improper dihedrals ]") = Nth(occ, 2)
        /\ Has(section_lines, "[ improper dihedrals ]") =>
             /\ Has(section_lines, "[ proper dihedrals ]")
             /\ Get(section_lines, "[ proper dihedrals ]")
                  < Get(section_lines, "[ improper dihedrals ]")
        /\ ~ Has(section_lines, "[ dihedrals ]")

\* A text with three or more [ dihedrals ] headers has been indexed.
C2_Witness ==
  /\ pc = "atoms"
  /\ Cardinality(Occurrences(topology, "[ dihedrals ]")) >= 3
  /\ Has(section_lines, "[ improper dihedrals ]")

----------------------------------------------------------------------------
(* The atom table builder run on a topology text and its index *)

MaxAtomLines == 4

\* Lines of a topology that matter to the atom table: the [ atoms ] header,
\* a later header, an atom row, a row repeating its index (written 01), a
\* row of four tokens, a row whose index is no integer, a blank line and a
\* comment line.
AtomLineKinds ==
  { <<"[", " ", "a", "t", "o", "m", "s", " ", "]">>,
    <<"[", " ", "b", "o", "n", "d", "s", " ", "]">>,
    <<"1", " ", "C", "A", " ", "1", " ", "A", "L", "A", " ", "N">>,
    <<"0", "1", " ", "C", "B", " ", "2", " ", "G", "L", "Y", " ", "C">>,
    <<"3", " ", "C", "D", " ", "1", " ", "A", "L", "A">>,
    <<"x", " ", "C", "B", " ", "1", " ", "A", "L", "A", " ", "C">>,
    <<" ">>,
    <<";", "2", " ", "C", "A", " ", "1", " ", "A", "L", "A", " ", "N">> }

InitAtoms ==
  /\ topology \in SeqsUpTo(AtomLineKinds, MaxAtomLines)
  /\ error_content = <<>>
  /\ errors = <<>>
  /\ section_lines = <<>>
  /\ atom_info = <<>>
  /\ ret = NoRet
  /\ dummies = NoDummies
  /\ stats = NoStats
  /\ pc = "index"

\* atom_info = extract_atom_names(topology_file, sections)
BuildAtomTable ==
  /\ pc = "atoms"
  /\ atom_info' = ExtractAtomNames(topology, section_lines)
  /\ pc' = "correlate"
  /\ UNCHANGED <<topology, error_content, errors, section_lines, ret, dummies, stats>>

NextAtoms == IndexSections \/ BuildAtomTable

SpecAtoms == InitAtoms /\ [][NextAtoms]_vars

\* The exclusive end of the Atoms span: the smallest indexed start line
\* greater than the Atoms start, or one past the last line.
SpanEnd(text, sl) ==
  LET later == {sl[j][2] : j \in 1..Len(sl)} \cap
                 {n \in 1..Len(text) : n > Get(sl, "[ atoms ]")}
  IN  IF later = {} THEN Len(text) + 1 ELSE Min(later)

\* The lines of the Atoms span that are neither blank nor comments and have
\* at least five tokens.
CandidateRows(text, sl) ==
  IF ~Has(sl, "[ atoms ]") THEN {}
  ELSE {n \in (Get(sl, "[ atoms ]") + 1)..(SpanEnd(text, sl) - 1) :
          /\ Strip(text[n]) # <<>>
          /\ Head(Strip(text[n])) # ";"
          /\ Len(Split(text[n])) >= 5}

WellFormedRows(text, sl) ==
  {n \in CandidateRows(text, sl) : IsInt(Split(text[n])[1])}

\* C9: a row of the Atoms span with five or more tokens whose first token is
\* no integer is skipped, and every well-formed row of the span is still in
\* the table.
C9_MalformedRowSkipped ==
  pc = "correlate" =>
    \A n \in WellFormedRows(topology, section_lines) :
      Has(atom_info, ToInt(Split(topology[n])[1]))

\* C10: when every candidate row has an integer first token, the keys of the
\* table are exactly the first tokens of the candidate rows (the rows of the
\* span that are neither blank nor comments and have five or more tokens),
\* and each key holds the fields of the last such row.
C10_SpanAndShortRows ==
  (pc = "correlate" /\
   CandidateRows(topology, section_lines) = WellFormedRows(topology, section_lines))
  =>
    LET rows == CandidateRows(topology, section_lines)
        key(n) == ToInt(Split(topology[n])[1])
    IN  /\ Keys(atom_info) = {key(n) : n \in rows}
        /\ \A n \in rows :
             (\A m \in rows : key(m) = key(n) => m <= n) =>
               Get(atom_info, key(n)) =
                 [name |-> Split(topology[n])[5], type |-> Split(topology[n])[2],
                  resnr |-> Split(topology[n])[3], residue |-> Split(topology[n])[4]]

\* A table built from a span that holds a blank or comment line, a row of
\* fewer than five tokens and a row at or after the end line.
C10_Witness ==
  /\ pc = "correlate"
  /\ atom_info # <<>>
  /\ Has(section_lines, "[ atoms ]")
  /\ SpanEnd(topology, section_lines) <= Len(topology)
  /\ \E n \in (Get(section_lines, "[ atoms ]") + 1)..(SpanEnd(topology, section_lines) - 1) :
       Len(Split(topology[n])) < 5

----------------------------------------------------------------------------
(* The error log parser run on a diagnostic text *)

MaxBlocks == 2

ErrorNumbers == { <<"1">>, <<"1", "2">> }
SourceLines == { <<"5">>, <<"1", "0">> }

\* What follows the colon of a header: the blanks before the message, the
\* message, and what ends the block.  A one-line message ended by a blank
\* line; the same ended by a single newline (the next block follows with no
\* blank line between); an empty message directly followed by a blank line;
\* a message of two lines that starts on the next line.
BlockShapes ==
  { [sep |-> <<" ">>, msg |-> <<"n", "o", " ", "U", "-", "B">>, term |-> <<"\n", "\n">>],
    [sep |-> <<" ">>, msg |-> <<"n", "o", " ", "U", "-", "B">>, term |-> <<"\n">>],
    [sep |-> <<>>, msg |-> <<>>, term |-> <<"\n", "\n">>],
    [sep |-> <<"\n", " ", " ">>, msg |-> <<"a", "\n", "b">>, term |-> <<"\n", "\n">>] }

\* ERROR <n> [file topol.top, line <m>]: <message>
Block(n, m, shape) ==
  LitError \o n \o LitFile \o m \o LitClose \o shape.sep \o shape.msg \o shape.term

BlockKinds ==
  {Block(n, m, shape) : n \in ErrorNumbers, m \in SourceLines, shape \in BlockShapes}

RECURSIVE Concat(_)
Concat(ss) == IF ss = <<>> THEN <<>> ELSE Head(ss) \o Concat(Tail(ss))

InitParse ==
  /\ error_content \in {Concat(bs) : bs \in SeqsUpTo(BlockKinds, MaxBlocks)}
  /\ topology = <<>>
  /\ errors = <<>>
  /\ section_lines = <<>>
  /\ atom_info = <<>>
  /\ ret = NoRet
  /\ dummies = NoDummies
  /\ stats = NoStats
  /\ pc = "parse"

\* errors = extract_error_info(error_file)
ParseErrors ==
  /\ pc = "parse"
  /\ errors' = ExtractErrorInfo(error_content)
  /\ pc' = "index"
  /\ UNCHANGED <<topology, error_content, section_lines, atom_info, ret, dummies, stats>>

NextParse == ParseErrors

SpecParse == InitParse /\ [][NextParse]_vars

\* The positions of the text where a header ERROR <n> [...]: stands.
HeaderPositions(text) == {p \in 1..Len(text) : MatchHeader(text, p).ok}

\* C3: the parser returns one record per header of the text, the i-th record
\* with the error number and the source line of the i-th header.
C3_OneRecordPerHeader ==
  pc = "index" =>
    LET hs == HeaderPositions(error_content)
    IN  /\ Len(errors) = Cardinality(hs)
        /\ \A i \in 1..Len(errors) :
             i <= Cardinality(hs) =>
               /\ errors[i].error_num = ToInt(MatchHeader(error_content, Nth(hs, i)).num)
               /\ errors[i].line_number = ToInt(MatchHeader(error_content, Nth(hs, i)).line)

----------------------------------------------------------------------------
(* The correlator run on one error of a topology text *)

MaxCorrLines == 4

\* Lines of a topology that matter to the correlator: five headers, an atom
\* row (in another section: a row whose second token is no integer), a row
\* of four integers and a row of two.
CorrLineKinds ==
  { <<"[", " ", "a", "t", "o", "m", "s", " ", "]">>,
    <<"[", " ", "b", "o", "n", "d", "s", " ", "]">>,
    <<"[", " ", "p", "a", "i", "r", "s", " ", "]">>,
    <<"[", " ", "a", "n", "g", "l", "e", "s", " ", "]">>,
    <<"[", " ", "d", "i", "h", "e", "d", "r", "a", "l", "s", " ", "]">>,
    <<"5", " ", "C", "A", " ", "1", " ", "A", "L", "A", " ", "N">>,
    <<"5", " ", "7", " ", "9", " ", "3">>,
    <<"5", " ", "7">> }

InitCorrelate ==
  /\ topology \in SeqsUpTo(CorrLineKinds, MaxCorrLines)
  /\ error_content = <<>>
  /\ errors = <<>>
  /\ section_lines = <<>>
  /\ atom_info = <<>>
  /\ ret = NoRet
  /\ dummies = NoDummies
  /\ stats = NoStats
  /\ pc = "index"

\* The error record the parser builds for an error at the given line.
ErrorAt(line) == [error_num |-> 1, line_number |-> line, error_msg |-> <<>>]

\* One pass of the loop of main on an error at a line of the topology or one
\* past its end: identify_atoms_from_context, then the results are stored.
CorrelateError ==
  /\ pc = "correlate"
  /\ \E line \in 1..(Len(topology) + 1) :
       LET r == IdentifyAtomsFromContext(ErrorAt(line), section_lines, topology,
                                         atom_info)
       IN  /\ errors' = <<StoreResults(r.error, r.ret)>>
           /\ ret' = r.ret
  /\ pc' = "synthesize"
  /\ UNCHANGED <<topology, error_content, section_lines, atom_info, dummies, stats>>

NextCorrelate == IndexSections \/ BuildAtomTable \/ CorrelateError

SpecCorrelate == InitCorrelate /\ [][NextCorrelate]_vars

\* The index entries that start at or before the line.
StartedBy(sl, line) == {j \in 1..Len(sl) : sl[j][2] <= line}

\* C4: the section written to the record is the index entry with the largest
\* start line at or before the error's line, whatever the order of the
\* entries; with no such entry the four outputs are empty and no section is
\* written.
C4_LargestStartAtOrBefore ==
  pc = "synthesize" =>
    LET e == errors[1]
        started == StartedBy(section_lines, e.line_number)
    IN  IF started = {}
        THEN "section" \notin DOMAIN e /\ ret = NoRet
        ELSE /\ "section" \in DOMAIN e
             /\ \E j \in started :
                  /\ section_lines[j][1] = e.section
                  /\ \A k \in started : section_lines[k][2] <= section_lines[j][2]

\* An error whose section is not the first entry of the index that starts at
\* or before its line: the entries are not stored in line order.
C4_Witness ==
  /\ pc = "synthesize"
  /\ "section" \in DOMAIN errors[1]
  /\ \E j, k \in StartedBy(section_lines, errors[1].line_number) :
       /\ j < k
       /\ section_lines[j][2] > section_lines[k][2]
       /\ section_lines[j][1] = errors[1].section

\* C5: whenever the returned atom list is not empty, the names, residues and
\* types have its length, an index missing from the table giving
\* Unknown-<index>, Unknown, Unknown; for every atom table, the empty one
\* included.
C5_ResolutionTotal ==
  pc = "synthesize" =>
    (ret.atoms # <<>> =>
       /\ Len(ret.names) = Len(ret.atoms)
       /\ Len(ret.residues) = Len(ret.atoms)
       /\ Len(ret.types) = Len(ret.atoms)
       /\ \A k \in 1..Len(ret.atoms) :
            ~Has(atom_info, ret.atoms[k]) =>
              /\ ret.names[k] = LitUnknown \o <<"-">> \o IntToStr(ret.atoms[k])
              /\ ret.types[k] = LitUnknown
              /\ ret.residues[k] = LitUnknown)

\* C6: an error whose line lies past the end of the topology gets four empty
\* outputs and no section field, as when no section qualifies.
C6_PastEndLikeNoSection ==
  (pc = "synthesize" /\ errors[1].line_number > Len(topology)) =>
    /\ ret = NoRet
    /\ "section" \notin DOMAIN errors[1]

\* C13: the atom list returned is the first 2 tokens of the error's line in
\* Bonds and Pairs, the first 3 in Angles, the first 4 in the two dihedral
\* sections, in line order and as integers, whatever follows them; it is
\* empty when the line has fewer tokens or the section is Atoms (and when
\* one of these tokens is no integer).
C13_ExtractionByArity ==
  (pc = "synthesize" /\ "section" \in DOMAIN errors[1]
     /\ errors[1].line_number <= Len(topology)) =>
    LET e == errors[1]
        tokens == Split(Strip(topology[e.line_number]))
        n == CASE e.section \in {"[ bonds ]", "[ pairs ]"} -> 2
               [] e.section = "[ angles ]" -> 3
               [] e.section \in {"[ proper dihedrals ]", "[ improper dihedrals ]"} -> 4
               [] e.section = "[ atoms ]" -> 0
    IN  /\ e.atoms = ret.atoms
        /\ IF n = 0 \/ Len(tokens) < n THEN ret.atoms = <<>>
           ELSE IF \A k \in 1..n : IsInt(tokens[k])
           THEN /\ Len(ret.atoms) = n
                /\ \A k \in 1..n : ret.atoms[k] = ToInt(tokens[k])
           ELSE ret.atoms = <<>>

\* A row of four integers in Angles has given its first three.
C13_Witness ==
  /\ pc = "synthesize"
  /\ "section" \in DOMAIN errors[1]
  /\ errors[1].section = "[ angles ]"
  /\ errors[1].line_number <= Len(topology)
  /\ Len(Split(Strip(topology[errors[1].line_number]))) = 4
  /\ ret.atoms = <<5, 7, 9>>

----------------------------------------------------------------------------
(* The synthesizer run on a sequence of enriched error records *)

MaxRecords == 3

MsgUB ==
  <<"N", "o", " ", "d", "e", "f", "a", "u", "l", "t", " ", "U", "-", "B", " ",
    "t", "y", "p", "e", "s">>
MsgProperDih ==
  <<"N", "o", " ", "d", "e", "f", "a", "u", "l", "t", " ", "P", "r", "o", "p",
    "e", "r", " ", "D", "i", "h", ".", " ", "t", "y", "p", "e", "s">>

Messages == {MsgUB, MsgProperDih}

CA == <<"C", "A">>
CB == <<"C", "B">>
CC == <<"C", "C">>
CD == <<"C", "D">>
ALA1 == <<"A", "L", "A", "1">>

\* What the correlator leaves in a record: an angle row resolved to three
\* types, another in the reverse order, an angle row of too few tokens, a
\* dihedral row, a bond row.
Enrichments ==
  { [section |-> "[ angles ]", atoms |-> <<5, 7, 9>>,
     atom_names |-> <<CA, CB, CC>>, residues |-> <<ALA1, ALA1, ALA1>>,
     atom_types |-> <<CA, CB, CC>>],
    [section |-> "[ angles ]", atoms |-> <<9, 7, 5>>,
     atom_names |-> <<CC, CB, CA>>, residues |-> <<ALA1, ALA1, ALA1>>,
     atom_types |-> <<CC, CB, CA>>],
    [section |-> "[ angles ]", atoms |-> <<>>,
     atom_names |-> <<>>, residues |-> <<>>, atom_types |-> <<>>],
    [section |-> "[ proper dihedrals ]", atoms |-> <<5, 7, 9, 3>>,
     atom_names |-> <<CA, CB, CC, CD>>, residues |-> <<ALA1, ALA1, ALA1, ALA1>>,
     atom_types |-> <<CA, CB, CC, CD>>],
    [section |-> "[ bonds ]", atoms |-> <<5, 7>>,
     atom_names |-> <<CA, CB>>, residues |-> <<ALA1, ALA1>>,
     atom_types |-> <<CA, CB>>] }

\* The records of the loop of main: a parsed error with the section written
\* by the correlator and the four lists stored by main; and a record no
\* section was found for.
EnrichedRecords ==
  {[error_num |-> 1, line_number |-> 12, error_msg |-> m,
    section |-> x.section, atoms |-> x.atoms, atom_names |-> x.atom_names,
    residues |-> x.residues, atom_types |-> x.atom_types] :
     m \in Messages, x \in Enrichments}
  \cup {StoreResults([error_num |-> 1, line_number |-> 12, error_msg |-> m], NoRet) :
          m \in Messages}

InitSynth ==
  /\ errors \in SeqsUpTo(EnrichedRecords, MaxRecords)
  /\ topology = <<>>
  /\ error_content = <<>>
  /\ section_lines = <<>>
  /\ atom_info = <<>>
  /\ ret = NoRet
  /\ dummies = NoDummies
  /\ stats = NoStats
  /\ pc = "synthesize"

\* dummies = process_errors_for_dummies(errors)
Synthesize ==
  /\ pc = "synthesize"
  /\ dummies' = ProcessErrorsForDummies(errors).dummies
  /\ stats' = ProcessErrorsForDummies(errors).stats
  /\ pc' = "done"
  /\ UNCHANGED <<topology, error_content, errors, section_lines, atom_info, ret>>

NextSynth == Synthesize

SpecSynth == InitSynth /\ [][NextSynth]_vars

\* The records that give an angle row, and those that give a dihedral row.
AngleRecords(es) ==
  {k \in 1..Len(es) :
     ~NoAtomTypes(es[k]) /\ IsAngleError(es[k]) /\ Len(es[k].atom_types) = 3}

DihedralRecords(es) ==
  {k \in 1..Len(es) :
     /\ ~NoAtomTypes(es[k]) /\ ~IsAngleError(es[k]) /\ IsDihedralError(es[k])
     /\ Len(es[k].atom_types) = 4}

StrictlyIncreasing(rows) ==
  \A k \in 1..(Len(rows) - 1) : StrLess(rows[k], rows[k + 1])

Orderings(n) ==
  {f \in [1..n -> 1..n] : \A a, b \in 1..n : f[a] = f[b] => a = b}

Permuted(es, f) == [k \in 1..Len(es) |-> es[f[k]]]

\* The angle row of the claim, with 7 blanks before the last 0.00.
RowCACBCC7 ==
  <<" ", " ", " ", " ", " ", " ", "C", "A", " ", " ", " ", " ", " ", " ", " ",
    "C", "B", " ", " ", " ", " ", " ", " ", " ", "C", "C", " ", " ", " ", " ",
    " ", "1", " ", " ", " ", "1", "2", "0", ".", "0", "0", "0", "0", "0", "0",
    " ", " ", " ", "2", "0", "0", ".", "0", "0", "0", "0", "0", "0", " ", " ",
    " ", "0", ".", "0", "0", "0", "0", "0", "0", "0", "0", " ", " ", " ", " ",
    " ", " ", " ", "0", ".", "0", "0", " ", ";">>

\* The same row with 9 blanks before the last 0.00: three blanks and a field
\* of width 10.
RowCACBCC9 ==
  <<" ", " ", " ", " ", " ", " ", "C", "A", " ", " ", " ", " ", " ", " ", " ",
    "C", "B", " ", " ", " ", " ", " ", " ", " ", "C", "C", " ", " ", " ", " ",
    " ", "1", " ", " ", " ", "1", "2", "0", ".", "0", "0", "0", "0", "0", "0",
    " ", " ", " ", "2", "0", "0", ".", "0", "0", "0", "0", "0", "0", " ", " ",
    " ", "0", ".", "0", "0", "0", "0", "0", "0", "0", "0", " ", " ", " ", " ",
    " ", " ", " ", " ", " ", "0", ".", "0", "0", " ", ";">>

\* The records classified as angles that have the atom types CA, CB, CC.
RecordsCACBCC(es) == {k \in AngleRecords(es) : es[k].atom_types = <<CA, CB, CC>>}

\* C7 (as claimed): an angle record with atom types CA, CB, CC gives the row
\* with 7 blanks before the last 0.00.
C7_AngleRowAsClaimed ==
  (pc = "done" /\ RecordsCACBCC(errors) # {}) =>
    /\ RowCACBCC7 \in Range(dummies.angles)
    /\ \A row \in Range(dummies.angles) :
         SubSeq(row, 1, 26) = SubSeq(RowCACBCC7, 1, 26) => row = RowCACBCC7

\* C7 (amended): an angle record with atom types CA, CB, CC gives the row
\* `      CA       CB       CC     1   120.000000   200.000000   0.00000000         0.00 ;`
\* with 9 blanks before the last 0.00, and no other row for these types.
C7_AngleRow ==
  (pc = "done" /\ RecordsCACBCC(errors) # {}) =>
    /\ RowCACBCC9 \in Range(dummies.angles)
    /\ \A row \in Range(dummies.angles) :
         SubSeq(row, 1, 26) = SubSeq(RowCACBCC9, 1, 26) => row = RowCACBCC9

\* An angle record with atom types CA, CB, CC has been synthesized.
C7_Witness ==
  /\ pc = "done"
  /\ RecordsCACBCC(errors) # {}
  /\ dummies.angles # <<>>

\* C8: each of the two sequences returned is the strictly increasing listing
\* of the set of rows of the matching records; it is the same for the records
\* in any other order and for the records repeated, and the records are left
\* as they were.
C8_SortedDeduplicated ==
  [][pc' = "done" =>
       /\ errors' = errors
       /\ Range(dummies'.angles) =
            {GenerateAngleDummy(errors[k].atom_types) : k \in AngleRecords(errors)}
       /\ Range(dummies'.dihedrals) =
            {GenerateDihedralDummy(errors[k].atom_types) : k \in DihedralRecords(errors)}
       /\ StrictlyIncreasing(dummies'.angles)
       /\ StrictlyIncreasing(dummies'.dihedrals)
       /\ \A f \in Orderings(Len(errors)) :
            ProcessErrorsForDummies(Permuted(errors, f)).dummies = dummies'
       /\ ProcessErrorsForDummies(errors \o errors).dummies = dummies'
       /\ ProcessErrorsForDummies(errors').dummies = dummies']_vars

\* Three records have given angle rows, two of them the same row, and the
\* first record's row sorts after the second's.
C8_Witness ==
  /\ pc = "done"
  /\ Cardinality(AngleRecords(errors)) = 3
  /\ Len(dummies.angles) = 2
  /\ StrLess(GenerateAngleDummy(errors[2].atom_types),
             GenerateAngleDummy(errors[1].atom_types))

----------------------------------------------------------------------------
(* The synthesizer's classification of records by message and section *)

MaxClassRecords == 2

MsgAngleTypes == <<"N", "o", " ", "d", "e", "f", "a", "u", "l", "t", " ", "A", "n", "g", "l", "e", " ", "t", "y", "p", "e", "s">>
MsgDihedralType ==
  <<"N", "o", " ", "d", "e", "f", "a", "u", "l", "t", " ", "d", "i", "h", "e", "d", "r", "a", "l", " ", "t", "y", "p", "e">>

ClassMessages == {MsgUB, MsgAngleTypes, MsgProperDih, MsgDihedralType}

\* What the correlator leaves in a record of each section: the lists have
\* the section's arity, or are empty (a short row, or no atom table).
ClassEnrichments ==
  { [section |-> "[ angles ]", atoms |-> <<5, 7, 9>>,
     atom_names |-> <<CA, CB, CC>>, residues |-> <<ALA1, ALA1, ALA1>>,
     atom_types |-> <<CA, CB, CC>>],
    [section |-> "[ angles ]", atoms |-> <<5, 7, 9>>,
     atom_names |-> <<>>, residues |-> <<>>, atom_types |-> <<>>],
    [section |-> "[ proper dihedrals ]", atoms |-> <<5, 7, 9, 3>>,
     atom_names |-> <<CA, CB, CC, CD>>, residues |-> <<ALA1, ALA1, ALA1, ALA1>>,
     atom_types |-> <<CA, CB, CC, CD>>],
    [section |-> "[ proper dihedrals ]", atoms |-> <<>>,
     atom_names |-> <<>>, residues |-> <<>>, atom_types |-> <<>>],
    [section |-> "[ bonds ]", atoms |-> <<5, 7>>,
     atom_names |-> <<CA, CB>>, residues |-> <<ALA1, ALA1>>,
     atom_types |-> <<CA, CB>>],
    [section |-> "[ bonds ]", atoms |-> <<>>,
     atom_names |-> <<>>, residues |-> <<>>, atom_types |-> <<>>] }

\* The records of the loop of main, for each message.
ClassRecords ==
  {[error_num |-> 1, line_number |-> 12, error_msg |-> m,
    section |-> x.section, atoms |-> x.atoms, atom_names |-> x.atom_names,
    residues |-> x.residues, atom_types |-> x.atom_types] :
     m \in ClassMessages, x \in ClassEnrichments}
  \cup {StoreResults([error_num |-> 1, line_number |-> 12, error_msg |-> m], NoRet) :
          m \in ClassMessages}

InitClassify ==
  /\ errors \in SeqsUpTo(ClassRecords, MaxClassRecords)
  /\ topology = <<>>
  /\ error_content = <<>>
  /\ section_lines = <<>>
  /\ atom_info = <<>>
  /\ ret = NoRet
  /\ dummies = NoDummies
  /\ stats = NoStats
  /\ pc = "synthesize"

SpecClassify == InitClassify /\ [][NextSynth]_vars

\* What the message of a record says, and what its section says.
MessageSaysAngle(e) ==
  \/ Contains(Lower(e.error_msg), LitNoDefaultUB)
  \/ Contains(Lower(e.error_msg), LitAngleType)

MessageSaysDihedral(e) ==
  \/ Contains(Lower(e.error_msg), LitNoDefaultDihedralType)
  \/ Contains(Lower(e.error_msg), LitDihedralType)

SectionSaysAngle(e) == "section" \in DOMAIN e /\ Contains(Text(e.section), LitAngle)

SectionSaysDihedral(e) ==
  "section" \in DOMAIN e /\ Contains(Text(e.section), LitDihedral)

HasAtomTypes(e) == "atom_types" \in DOMAIN e /\ e.atom_types # <<>>

\* A record whose message says dihedral and not angle, in the Angles section;
\* and one whose message says angle, in a dihedral section.
DihedralMessageInAngles(e) ==
  HasAtomTypes(e) /\ MessageSaysDihedral(e) /\ ~MessageSaysAngle(e) /\ SectionSaysAngle(e)

AngleMessageInDihedrals(e) ==
  HasAtomTypes(e) /\ MessageSaysAngle(e) /\ SectionSaysDihedral(e)

\* C11: when the message and the section of a record disagree, the message
\* wins.  Records with a dihedral message in the Angles section are
\* dihedrals: they give no angle row (with three atom types they are skipped
\* for their atom count).  Records with an angle message in a dihedral
\* section are angles: they give no dihedral row.
C11_MessageWins ==
  (pc = "done" /\ errors # <<>>) =>
    /\ (\A k \in 1..Len(errors) : DihedralMessageInAngles(errors[k])) =>
         /\ dummies.angles = <<>>
         /\ stats.processed =
              Cardinality({k \in 1..Len(errors) : Len(errors[k].atom_types) = 4})
    /\ (\A k \in 1..Len(errors) : AngleMessageInDihedrals(errors[k])) =>
         /\ dummies.dihedrals = <<>>
         /\ stats.processed =
              Cardinality({k \in 1..Len(errors) : Len(errors[k].atom_types) = 3})

\* Rule (i) and rule (ii) of the classification.
RuleI(e) == MessageSaysAngle(e) \/ SectionSaysAngle(e)

RuleII(e) == MessageSaysDihedral(e) \/ SectionSaysDihedral(e)

AngleContributors(es) ==
  {k \in 1..Len(es) : HasAtomTypes(es[k]) /\ RuleI(es[k]) /\ Len(es[k].atom_types) = 3}

DihedralContributors(es) ==
  {k \in 1..Len(es) :
     /\ HasAtomTypes(es[k]) /\ ~RuleI(es[k]) /\ RuleII(es[k])
     /\ Len(es[k].atom_types) = 4}

WrongArity(es) ==
  {k \in 1..Len(es) :
     /\ HasAtomTypes(es[k])
     /\ \/ RuleI(es[k]) /\ Len(es[k].atom_types) # 3
        \/ ~RuleI(es[k]) /\ RuleII(es[k]) /\ Len(es[k].atom_types) # 4}

\* C12: a record gives an angle row iff it has atom types, satisfies rule (i)
\* and has exactly 3 atom types; a dihedral row iff it has atom types, does
\* not satisfy rule (i), satisfies rule (ii) and has exactly 4 atom types;
\* nothing otherwise, a rule (i) record of 4 atom types being a wrong-arity
\* skip.  Every record is counted in exactly one of the four counters.
C12_RuleListWithArity ==
  pc = "done" =>
    /\ Range(dummies.angles) =
         {GenerateAngleDummy(errors[k].atom_types) : k \in AngleContributors(errors)}
    /\ Range(dummies.dihedrals) =
         {GenerateDihedralDummy(errors[k].atom_types) : k \in DihedralContributors(errors)}
    /\ stats.processed =
         Cardinality(AngleContributors(errors)) + Cardinality(DihedralContributors(errors))
    /\ stats.no_atom_types =
         Cardinality({k \in 1..Len(errors) : ~HasAtomTypes(errors[k])})
    /\ stats.wrong_count = Cardinality(WrongArity(errors))
    /\ stats.unknown =
         Cardinality({k \in 1..Len(errors) :
                        HasAtomTypes(errors[k]) /\ ~RuleI(errors[k]) /\ ~RuleII(errors[k])})
    /\ stats.processed + stats.no_atom_types + stats.wrong_count + stats.unknown
         = Len(errors)

\* A record of rule (i) and rule (ii) with 4 atom types has been skipped for
\* its atom count, next to a record that gave a dihedral row.
C12_Witness ==
  /\ pc = "done"
  /\ \E k \in 1..Len(errors) :
       /\ HasAtomTypes(errors[k]) /\ RuleI(errors[k]) /\ RuleII(errors[k])
       /\ Len(errors[k].atom_types) = 4
  /\ stats.wrong_count = 1
  /\ stats.processed = 1
  /\ Len(dummies.dihedrals) = 1

----------------------------------------------------------------------------
(* main: parse, index, atom table, the loop over the errors, synthesis *)

MaxMainLines == 4
MaxMainErrors == 2

\* Lines of a topology: the [ atoms ] header, an atom row, the [ angles ]
\* header and a row of four integers.
MainLineKinds ==
  { <<"[", " ", "a", "t", "o", "m", "s", " ", "]">>,
    <<"5", " ", "C", "A", " ", "1", " ", "A", "L", "A", " ", "N">>,
    <<"[", " ", "a", "n", "g", "l", "e", "s", " ", "]">>,
    <<"5", " ", "7", " ", "9", " ", "3">> }

\* The line numbers of the errors: the fifth is past the end of the text.
MainSourceLines == { <<"1">>, <<"2">>, <<"3">>, <<"4">>, <<"5">> }

\* Well-formed blocks of the error log, one error each.
MainBlocks ==
  {Block(<<"1">>, m, [sep |-> <<" ">>, msg |-> MsgUB, term |-> <<"\n", "\n">>]) :
     m \in MainSourceLines}

Init ==
  /\ topology \in SeqsUpTo(MainLineKinds, MaxMainLines)
  /\ error_content \in {Concat(bs) : bs \in SeqsUpTo(MainBlocks, MaxMainErrors)}
  /\ errors = <<>>
  /\ section_lines = <<>>
  /\ atom_info = <<>>
  /\ ret = NoRet
  /\ dummies = NoDummies
  /\ stats = NoStats
  /\ pc = "parse"

\* The errors the loop has not reached: main stores 'atoms' in each error it
\* has been through.
Unprocessed(es) == {k \in 1..Len(es) : "atoms" \notin DOMAIN es[k]}

\* One pass of the loop of main, on the next error.  main has no try around
\* the call: an exception that left it would end the program.
CorrelateNext ==
  /\ pc = "correlate"
  /\ Unprocessed(errors) # {}
  /\ LET i == Min(Unprocessed(errors))
         r == IdentifyAtomsFromContext(errors[i], section_lines, topology, atom_info)
     IN  IF r.raised
         THEN /\ errors' = [errors EXCEPT ![i] = r.error]
              /\ ret' = ret
              /\ pc' = "aborted"
         ELSE /\ errors' = [errors EXCEPT ![i] = StoreResults(r.error, r.ret)]
              /\ ret' = r.ret
              /\ pc' = "correlate"
  /\ UNCHANGED <<topology, error_content, section_lines, atom_info, dummies, stats>>

\* The loop is over: the results are saved and synthesis comes next.
EndLoop ==
  /\ pc = "correlate"
  /\ Unprocessed(errors) = {}
  /\ pc' = "synthesize"
  /\ UNCHANGED <<topology, error_content, errors, section_lines, atom_info, ret,
                 dummies, stats>>

Next ==
  \/ ParseErrors
  \/ IndexSections
  \/ BuildAtomTable
  \/ CorrelateNext
  \/ EndLoop
  \/ Synthesize

Spec == Init /\ [][Next]_vars

\* A step of main can be taken at every position but the last, and after an
\* exception that ended the program.
Running == pc \notin {"done", "aborted"}

\* main is one sequential thread: a step that can be taken is taken.  This is
\* weak fairness of Next, its enabling condition written as Running.
FairSpec == Spec /\ ([]<>(~Running) \/ []<><<Next>>_vars)

\* The record the parser built, from the record the loop has been through.
Parsed(e) ==
  [error_num |-> e.error_num, line_number |-> e.line_number, error_msg |-> e.error_msg]

\* The record as main leaves it when it is the only one of the batch.
ProcessedAlone(e) ==
  LET r == IdentifyAtomsFromContext(Parsed(e), section_lines, topology, atom_info)
  IN  StoreResults(r.error, r.ret)

\* The line of the record starts with a token that is no integer, lies
\* before every section, or lies past the end of the text.
Faulty(e) ==
  \/ e.line_number > Len(topology)
  \/ StartedBy(section_lines, e.line_number) = {}
  \/ LET tokens == Split(Strip(topology[e.line_number]))
     IN  tokens # <<>> /\ ~IsInt(tokens[1])

EmptyResults(e) ==
  /\ e.atoms = <<>>
  /\ e.atom_names = <<>>
  /\ e.residues = <<>>
  /\ e.atom_types = <<>>

\* Once the loop is over every record has been through it, a faulty record
\* has empty results and every record has the result it gets alone.
Isolated ==
  /\ pc # "aborted"
  /\ pc \in {"synthesize", "done"} =>
       \A k \in 1..Len(errors) :
         /\ "atoms" \in DOMAIN errors[k]
         /\ Faulty(errors[k]) => EmptyResults(errors[k])
         /\ errors[k] = ProcessedAlone(errors[k])

\* C14: over a batch of records processed in order, a record whose line
\* starts with a non-numeric token, lies before every section or lies past
\* the end of the file gets empty results, no fault leaves its processing,
\* every record gets the result it would get alone, and the run always
\* reaches synthesis and completion.
C14_FaultIsolation ==
  /\ []Isolated
  /\ <>(pc = "synthesize")
  /\ <>(pc = "done")

\* A run has completed in which the first record's line starts with a token
\* that is no integer, inside a section that reads integers, and the second
\* record has given an angle row.
C14_Witness ==
  /\ pc = "done"
  /\ Len(errors) = 2
  /\ "section" \in DOMAIN errors[1]
  /\ errors[1].section = "[ angles ]"
  /\ errors[1].line_number <= Len(topology)
  /\ ~IsInt(Split(Strip(topology[errors[1].line_number]))[1])
  /\ EmptyResults(errors[1])
  /\ errors[2].atoms = <<5, 7, 9>>
  /\ stats.no_atom_types = 1

====
